---- MODULE Spec2Model ----
(***************************************************************************)
(* Follow-and-notify polling loop of stat-summoner.                        *)
(*                                                                         *)
(* The follow record store (MongoDB collection "follower_summoner") is a   *)
(* sequence of documents in natural (insertion) order.  The /followgames   *)
(* command inserts documents or refreshes their time_end_follow; the       *)
(* background driver repeatedly runs check_and_update_db, which deletes    *)
(* expired documents and, for the others, compares the stored              *)
(* last_match_id with the id reported by the Match Data Source, writes the *)
(* new id and posts a notification.                                        *)
(*                                                                         *)
(* The driver and every invocation of a command are tasks of their own     *)
(* (tokio::spawn in main, one task per interaction in poise).  A task      *)
(* gives way to the others at each await on an external collaborator       *)
(* (store, Match Data Source, Notification Sink): a step of the model is   *)
(* the completion of one such await, with the code that runs up to the     *)
(* next one.  Every such call may fail; its outcome is an input of the     *)
(* step.  An await lasts any time: the clock advances and the source       *)
(* changes its answer between any two steps.                               *)
(*                                                                         *)
(* The crate root that declares module/ and drives                         *)
(* module::loop_module::check_and_update_db is not among the sources.  The *)
(* driver is the loop of the task src/main.rs spawns (a pass, its Err      *)
(* logged, the sleep, the next pass); that it calls the pass of module/ is *)
(* taken from the specification.  src/main.rs itself is the root of the    *)
(* earlier generation of the program, with a pass and a /followgames of    *)
(* its own (commands/followgames.rs) on documents without guild_id and     *)
(* channel_id; that program is modelled apart, as SpecMain.                *)
(***************************************************************************)
EXTENDS Integers, Sequences, FiniteSets, Bags

VARIABLES
    store,          \* the collection: sequence of documents, natural order
    nextOid,        \* next document _id the store assigns on insert
    now,            \* Utc::now().timestamp(), read when a step runs
    latest,         \* Match Data Source: most recent match id per puuid
    driver,         \* position of the background task
    cursor,         \* documents the cursor of the pass has yet to yield
    enumerated,     \* followed_summoners: what the for loop has yet to visit
    current,        \* followed_summoner: the record the loop visited last
    pc,             \* the await the processing of current is suspended at
    calls,          \* external calls completed for current (or to enumerate)
    sent,           \* bag of messages the Notification Sink delivered for current
    result,         \* what check_and_update_db returned to the driver
    requests,       \* bag of /followgames invocations suspended at a store call
    lastFailure,    \* history: _id of the record whose latest-id query
                    \* failed and ended the previous pass (0: none)
    sends           \* history: the sends made since the source last changed

vars == <<store, nextOid, now, latest, driver, cursor, enumerated, current, pc,
          calls, sent, result, requests, lastFailure, sends>>

(***************************************************************************)
(* Bounds of the model.                                                    *)
(***************************************************************************)
MaxTime == 1        \* clock ticks explored
HoursPerTick == 2   \* hours the clock advances by in one tick
MaxInserts == 2     \* documents inserted since the program started
MaxInFlight == 1    \* /followgames invocations suspended at the same time

(***************************************************************************)
(* Program constants.                                                      *)
(***************************************************************************)
SecondsPerHour == 3600
MaxFollowHours == 48

\* A value of Utc::now().timestamp() when the program starts.
Epoch == 1790000000

Puuids == {"P1"}

\* Match ids the Match Data Source can report; NoMatch: no id at hand.
MatchIds == {"EUW1_1", "EUW1_2"}
NoMatch == ""

Accounts ==
    { [game_name |-> "Faker", tag_line |-> "KR1", puuid |-> "P1"] }

\* get_summoner_id: the summoner id of an account.
SummonerIdOf(p) == IF p = "P1" THEN "S1" ELSE "S2"

\* Discord contexts a command can be issued from: (guild, channel).
Contexts ==
    { [guild |-> 1, channel |-> 11],
      [guild |-> 2, channel |-> 21] }

\* Texts typed in the "Time Followed (in hours)" field of the modal.
TimeInputs ==
    { <<" ", "1">>, <<"0">>, <<"4", "9">>, <<"x">> }

(***************************************************************************)
(* String conversions.  A string is a sequence of characters, each a       *)
(* one-character string; a character a TLA+ string cannot hold is named by *)
(* its code point ("U+00A0").                                              *)
(***************************************************************************)
DigitChars == <<"0", "1", "2", "3", "4", "5", "6", "7", "8", "9">>

IsDigit(c) == \E d \in 1..10 : DigitChars[d] = c

DigitValue(c) == (CHOOSE d \in 1..10 : DigitChars[d] = c) - 1

RECURSIVE I64ToString(_)
I64ToString(n) ==
    IF n < 0 THEN <<"-">> \o I64ToString(0 - n)
    ELSE IF n < 10 THEN <<DigitChars[n + 1]>>
    ELSE Append(I64ToString(n \div 10), DigitChars[(n % 10) + 1])

RECURSIVE DigitsValue(_)
DigitsValue(s) ==
    IF s = <<>> THEN 0
    ELSE 10 * DigitsValue(SubSeq(s, 1, Len(s) - 1)) + DigitValue(s[Len(s)])

AllDigits(s) == s # <<>> /\ \A i \in 1..Len(s) : IsDigit(s[i])

\* char::is_whitespace: the characters with the Unicode property White_Space.
WhiteSpace ==
    { "\t", "\n", "U+000B", "\f", "\r", " ", "U+0085", "U+00A0", "U+1680",
      "U+2000", "U+2001", "U+2002", "U+2003", "U+2004", "U+2005", "U+2006",
      "U+2007", "U+2008", "U+2009", "U+200A", "U+2028", "U+2029", "U+202F",
      "U+205F", "U+3000" }

\* str::trim: leading and trailing white space removed.
RECURSIVE Trim(_)
Trim(s) ==
    IF s = <<>> THEN s
    ELSE IF s[1] \in WhiteSpace THEN Trim(Tail(s))
    ELSE IF s[Len(s)] \in WhiteSpace THEN Trim(SubSeq(s, 1, Len(s) - 1))
    ELSE s

\* A run of digits without its leading zeros (one digit is always kept).
RECURSIVE StripZeros(_)
StripZeros(s) ==
    IF Len(s) > 1 /\ s[1] = "0" THEN StripZeros(Tail(s)) ELSE s

\* a <= b, for numerals without leading zeros.
NumeralLeq(a, b) ==
    \/ Len(a) < Len(b)
    \/ /\ Len(a) = Len(b)
       /\ \/ a = b
          \/ \E i \in 1..Len(a) :
                /\ SubSeq(a, 1, i - 1) = SubSeq(b, 1, i - 1)
                /\ DigitValue(a[i]) < DigitValue(b[i])

(***************************************************************************)
(* Numbers of 64 bits.  A number is held as its decimal numeral, the text  *)
(* i64::to_string gives ("-" and the magnitude without leading zeros, "0"  *)
(* for zero), and compared and computed with digit by digit.               *)
(***************************************************************************)
IsNegative(a) == a[1] = "-"

Magnitude(a) == IF IsNegative(a) THEN Tail(a) ELSE a

\* The numeral of the number with magnitude digits, negative when neg.
Signed(neg, digits) ==
    IF neg /\ digits # <<"0">> THEN <<"-">> \o digits ELSE digits

\* a < b
DecLess(a, b) ==
    IF IsNegative(a) /\ IsNegative(b)
    THEN Magnitude(a) # Magnitude(b) /\ NumeralLeq(Magnitude(b), Magnitude(a))
    ELSE IF IsNegative(a) THEN TRUE
    ELSE IF IsNegative(b) THEN FALSE
    ELSE a # b /\ NumeralLeq(a, b)

\* The number of a numeral, for numbers the integers of the model hold.
DecToInt(a) ==
    IF IsNegative(a) THEN 0 - DigitsValue(Magnitude(a)) ELSE DigitsValue(a)

Front(s) == SubSeq(s, 1, Len(s) - 1)

\* Sum of two magnitudes and a carry, from the last digit on.
RECURSIVE MagAdd(_, _, _)
MagAdd(a, b, carry) ==
    IF a = <<>> /\ b = <<>>
    THEN IF carry = 0 THEN <<>> ELSE <<DigitChars[carry + 1]>>
    ELSE LET x == IF a = <<>> THEN 0 ELSE DigitValue(a[Len(a)])
             y == IF b = <<>> THEN 0 ELSE DigitValue(b[Len(b)])
             sum == x + y + carry
         IN  Append(MagAdd(Front(a), Front(b), sum \div 10),
                    DigitChars[(sum % 10) + 1])

\* Difference of two magnitudes, the first the larger, less a borrow.
RECURSIVE MagSub(_, _, _)
MagSub(a, b, borrow) ==
    IF a = <<>> THEN <<>>
    ELSE LET x == DigitValue(a[Len(a)])
             y == IF b = <<>> THEN 0 ELSE DigitValue(b[Len(b)])
             diff == x - y - borrow
         IN  Append(MagSub(Front(a), Front(b), IF diff < 0 THEN 1 ELSE 0),
                    DigitChars[(IF diff < 0 THEN diff + 10 ELSE diff) + 1])

\* a - b
DecSub(a, b) ==
    LET ma == Magnitude(a)
        mb == Magnitude(b)
    IN  IF IsNegative(a) # IsNegative(b)
        THEN Signed(IsNegative(a), StripZeros(MagAdd(ma, mb, 0)))
        ELSE IF NumeralLeq(mb, ma)
        THEN Signed(IsNegative(a), StripZeros(MagSub(ma, mb, 0)))
        ELSE Signed(~IsNegative(a), StripZeros(MagSub(mb, ma, 0)))

\* Long division of a magnitude by a small divisor: quotient and remainder.
RECURSIVE LongDivision(_, _, _, _)
LongDivision(a, divisor, quot, rem) ==
    IF a = <<>> THEN [quot |-> StripZeros(quot), rem |-> rem]
    ELSE LET part == 10 * rem + DigitValue(a[1])
         IN  LongDivision(Tail(a), divisor,
                          Append(quot, DigitChars[(part \div divisor) + 1]),
                          part % divisor)

\* a / divisor and a % divisor, for a >= 0.
DecDiv(a, divisor) == LongDivision(a, divisor, <<>>, 0).quot

DecMod(a, divisor) == LongDivision(a, divisor, <<>>, 0).rem

\* i64::MAX, the magnitude of i64::MIN and u32::MAX.
I64MaxNumeral ==
    <<"9", "2", "2", "3", "3", "7", "2", "0", "3", "6", "8", "5", "4", "7",
      "7", "5", "8", "0", "7">>

I64MinNumeral ==
    <<"9", "2", "2", "3", "3", "7", "2", "0", "3", "6", "8", "5", "4", "7",
      "7", "5", "8", "0", "8">>

U32MaxNumeral == <<"4", "2", "9", "4", "9", "6", "7", "2", "9", "5">>

\* str::parse::<i64>: optional sign, at least one digit (leading zeros
\* allowed), value from i64::MIN to i64::MAX.  val is the number parsed, as
\* its numeral; an Err has no number.
ParseI64(s) ==
    LET body == IF s # <<>> /\ s[1] \in {"+", "-"} THEN Tail(s) ELSE s
        neg == s # <<>> /\ s[1] = "-"
        digits == StripZeros(body)
    IN  IF ~AllDigits(body)
           \/ ~NumeralLeq(digits, IF neg THEN I64MinNumeral ELSE I64MaxNumeral)
        THEN [ok |-> FALSE, val |-> <<>>]
        ELSE [ok |-> TRUE, val |-> Signed(neg, digits)]

\* str::parse::<u32>: optional "+", at least one digit (leading zeros
\* allowed), value up to u32::MAX.  val is the number parsed, as its
\* numeral; an Err has no number.
ParseU32(s) ==
    LET body == IF s # <<>> /\ s[1] = "+" THEN Tail(s) ELSE s
        digits == StripZeros(body)
    IN  IF ~AllDigits(body) \/ ~NumeralLeq(digits, U32MaxNumeral)
        THEN [ok |-> FALSE, val |-> <<>>]
        ELSE [ok |-> TRUE, val |-> digits]

(***************************************************************************)
(* Store operations (MongoDB semantics on the natural order).              *)
(***************************************************************************)
\* Indexes of the documents matching {puuid} and {puuid, guild_id}.
ByPuuid(coll, p) == {i \in 1..Len(coll) : coll[i].puuid = p}

ByPuuidAndGuild(coll, p, g) ==
    {i \in 1..Len(coll) : coll[i].puuid = p /\ coll[i].guild_id = g}

Min(S) == CHOOSE x \in S : \A y \in S : x <= y

RemoveAt(s, i) == SubSeq(s, 1, i - 1) \o SubSeq(s, i + 1, Len(s))

\* find_one(filter): the first matching document, if any.
FindOneByPuuid(coll, p) ==
    LET m == ByPuuid(coll, p)
    IN  IF m = {} THEN [some |-> FALSE] ELSE [some |-> TRUE, val |-> coll[Min(m)]]

\* A delete_one whose filter names the player only.
DeleteOneAnyGuild(coll, p, g) ==
    LET m == ByPuuid(coll, p)
    IN  IF m = {} THEN coll ELSE RemoveAt(coll, Min(m))

\* delete_one({puuid, guild_id}): removes the first matching document.
DeleteOne(coll, p, g) ==
    LET m == ByPuuidAndGuild(coll, p, g)
    IN  IF m = {} THEN coll ELSE RemoveAt(coll, Min(m))

\* An update_one with the upsert option: no match inserts a document.
UpdateOneLastMatchUpsert(coll, p, g, mid) ==
    LET m == ByPuuidAndGuild(coll, p, g)
    IN  IF m = {}
        THEN Append(coll, [oid |-> 0, puuid |-> p, guild_id |-> g,
                           last_match_id |-> mid])
        ELSE [coll EXCEPT ![Min(m)].last_match_id = mid]

\* update_one({puuid, guild_id}, {$set: {last_match_id}}): first match only.
UpdateOneLastMatch(coll, p, g, mid) ==
    LET m == ByPuuidAndGuild(coll, p, g)
    IN  IF m = {} THEN coll
        ELSE [coll EXCEPT ![Min(m)].last_match_id = mid]

\* update_one({puuid, guild_id}, {$set: {time_end_follow}}): first match only.
UpdateOneTimeEnd(coll, p, g, tef) ==
    LET m == ByPuuidAndGuild(coll, p, g)
    IN  IF m = {} THEN coll
        ELSE [coll EXCEPT ![Min(m)].time_end_follow = tef]

(***************************************************************************)
(* Match detail (get_matchs_info responses and get_match_details).         *)
(***************************************************************************)
QUEUE_ID_MAP ==
    << <<400, "Normal Draft">>, <<420, "Ranked Solo/Duo">>,
       <<430, "Normal Blind">>, <<440, "Ranked Flex">>, <<450, "ARAM">>,
       <<700, "Clash">>, <<830, "Co-op vs AI Intro">>,
       <<840, "Co-op vs AI Beginner">>,
       <<850, "Co-op vs AI Intermediate">>, <<900, "URF">> >>

is_valid_game_mode(queue_id) ==
    \E i \in 1..Len(QUEUE_ID_MAP) : QUEUE_ID_MAP[i][1] = queue_id

get_game_mode(queue_id) ==
    IF is_valid_game_mode(queue_id)
    THEN QUEUE_ID_MAP[Min({i \in 1..Len(QUEUE_ID_MAP) :
                              QUEUE_ID_MAP[i][1] = queue_id})][2]
    ELSE "Unknown"

Participant(sid, team, win, position) ==
    [summonerId |-> sid, teamId |-> team, win |-> win,
     teamPosition |-> position]

\* Bodies the Match Data Source can answer a match-detail request with.
\* isArray = FALSE stands for a body whose info.participants is not a list;
\* teamPosition is "" in the queues that have no lanes.
MatchInfos ==
    { [queueId |-> 420, isArray |-> TRUE,
       participants |-> <<Participant("S9", 100, FALSE, "TOP"),
                          Participant("S1", 200, TRUE, "TOP")>>],
      [queueId |-> 9999, isArray |-> TRUE,
       participants |-> <<Participant("S1", 100, FALSE, ""),
                          Participant("S9", 200, TRUE, "")>>],
      [queueId |-> 420, isArray |-> TRUE,
       participants |-> <<Participant("S8", 100, TRUE, "TOP"),
                          Participant("S9", 200, FALSE, "TOP")>>],
      [queueId |-> 420, isArray |-> FALSE, participants |-> <<>>] }

Roles == <<"TOP", "JUNGLE", "MIDDLE", "BOTTOM", "UTILITY">>

\* get_match_details: None when the participants are no list or the
\* summoner is not among them; matchups are the roles both teams fill.
get_match_details(match_info, summoner_id) ==
    LET ps == match_info.participants
        found == {i \in 1..Len(ps) : ps[i].summonerId = summoner_id}
        team_id == ps[Min(found)].teamId
        matchups ==
            SelectSeq(Roles,
                      LAMBDA role :
                         /\ \E i \in 1..Len(ps) :
                               ps[i].teamId = team_id /\ ps[i].teamPosition = role
                         /\ \E i \in 1..Len(ps) :
                               ps[i].teamId # team_id /\ ps[i].teamPosition = role)
    IN  IF ~match_info.isArray THEN [some |-> FALSE]
        ELSE IF found = {} THEN [some |-> FALSE]
        ELSE [some |-> TRUE,
              val |-> [gameMode |-> get_game_mode(match_info.queueId),
                       gameResult |-> IF ps[Min(found)].win
                                      THEN "Victory" ELSE "Defeat",
                       matchups |-> matchups]]

(***************************************************************************)
(* The polling loop.                                                       *)
(***************************************************************************)
\* An expiry test that counts the second time_end_follow itself as past.
is_follow_time_expired_inclusive(followed_summoner, current_timestamp) ==
    LET parsed == ParseI64(followed_summoner.time_end_follow)
        time_end_follow == IF parsed.ok THEN parsed.val ELSE <<"0">>
    IN  ~DecLess(I64ToString(current_timestamp), time_end_follow)

\* time_end_follow.parse::<i64>().unwrap_or(0), compared with the clock.
is_follow_time_expired(followed_summoner, current_timestamp) ==
    LET parsed == ParseI64(followed_summoner.time_end_follow)
        time_end_follow == IF parsed.ok THEN parsed.val ELSE <<"0">>
    IN  DecLess(time_end_follow, I64ToString(current_timestamp))

\* How recent a match is: the ids of a platform are numbered in the order
\* the matches were played.
Recency(mid) == IF mid = "EUW1_1" THEN 1 ELSE IF mid = "EUW1_2" THEN 2 ELSE 0

\* A comparison by recency: only a more recent match counts as new.
IsNewMatchMoreRecent(last_match_id, match_id_from_riot) ==
    Recency(match_id_from_riot) > Recency(last_match_id)

\* A comparison that takes every reported id for a new match.
IsNewMatchAlways(last_match_id, match_id_from_riot) == TRUE

\* A comparison with == in place of !=.
IsNewMatchInverted(last_match_id, match_id_from_riot) ==
    last_match_id = match_id_from_riot

\* last_match_id != &match_id_from_riot
IsNewMatch(last_match_id, match_id_from_riot) ==
    last_match_id # match_id_from_riot

Call(op, oid, ok, mid) == [op |-> op, oid |-> oid, ok |-> ok, match |-> mid]

Notification(fs, mid, details) ==
    [channel_id |-> fs.channel_id, match |-> mid, name |-> fs.name,
     gameMode |-> details.gameMode, gameResult |-> details.gameResult]

NoMessage ==
    [channel_id |-> 0, match |-> NoMatch, name |-> "", gameMode |-> "",
     gameResult |-> ""]

\* Where the for loop is suspended: at the await named at, with left emoji
\* lookups of create_embed_loop still to make and the message msg built so
\* far.  "delete" and "ids": the first call for the next record of the Vec
\* is under way; "next": the loop waits for no call.
Suspended(at, left, msg) == [at |-> at, left |-> left, msg |-> msg]

AtNext == Suspended("next", 0, NoMessage)

FirstCalls == {"delete", "ids"}

\* A processor without the expiry branch: every record is polled.
process_followed_summoner_polling(fs, current_timestamp) ==
    Suspended("ids", 0, NoMessage)

\* process_followed_summoner is entered for record fs: the expiry test
\* reads the clock, and delete_follower or update_follower_if_new_match
\* issues its first call.
process_followed_summoner(fs, current_timestamp) ==
    IF is_follow_time_expired(fs, current_timestamp)
    THEN Suspended("delete", 0, NoMessage)
    ELSE Suspended("ids", 0, NoMessage)

\* get_emoji awaits of create_embed_loop per matchup: the role, the
\* champion of the team's player, the champion of the enemy's.
EmojiLookupsPerMatchup == 3

\* Answers of the Match Data Source to "the latest match id of puuid".
IdsResponses(p) ==
    { [ok |-> FALSE, ids |-> <<>>],
      [ok |-> TRUE, ids |-> <<>>],
      [ok |-> TRUE, ids |-> <<latest[p]>>] }

\* What the completion of one call comes to: the calls completed for the
\* record, the collection and the delivered messages afterwards, how control
\* goes on ("on": to the next await of the same record, "ok": the record is
\* done, "err": Err propagated by ?, "panic": the task panics) and where the
\* processing is suspended then.
Outcome(cs, coll, msgs, exit, at) ==
    [calls |-> cs, store |-> coll, sent |-> msgs, exit |-> exit, pc |-> at]

\* delete_follower: the delete_one completes.
delete_follower(coll, fs, ok) ==
    IF ok
    THEN Outcome(<<Call("delete", fs.oid, TRUE, NoMatch)>>,
                 DeleteOne(coll, fs.puuid, fs.guild_id), EmptyBag, "ok", AtNext)
    ELSE Outcome(<<Call("delete", fs.oid, FALSE, NoMatch)>>, coll, EmptyBag,
                 "err", AtNext)

\* A processor that fetches the detail and notifies without writing the new
\* id first.
update_follower_notifying_first(coll, fs, resp) ==
    IF ~resp.ok
    THEN Outcome(<<Call("ids", fs.oid, FALSE, NoMatch)>>, coll, EmptyBag,
                 "err", AtNext)
    ELSE IF resp.ids = <<>>
    THEN Outcome(<<Call("ids", fs.oid, TRUE, NoMatch)>>, coll, EmptyBag,
                 "panic", AtNext)
    ELSE LET match_id_from_riot == resp.ids[1]
             q == <<Call("ids", fs.oid, TRUE, match_id_from_riot)>>
         IN  IF ~IsNewMatch(fs.last_match_id, match_id_from_riot)
             THEN Outcome(q, coll, EmptyBag, "ok", AtNext)
             ELSE Outcome(q, coll, EmptyBag, "on",
                          Suspended("info", 0, NoMessage))

\* update_follower_if_new_match up to its update_one: get_latest_match_id
\* completes (get_matchs_id, then matches[0]) and the id is compared with
\* the last_match_id of the enumerated record.
update_follower_if_new_match(coll, fs, resp) ==
    IF ~resp.ok
    THEN Outcome(<<Call("ids", fs.oid, FALSE, NoMatch)>>, coll, EmptyBag,
                 "err", AtNext)
    ELSE IF resp.ids = <<>>
    THEN Outcome(<<Call("ids", fs.oid, TRUE, NoMatch)>>, coll, EmptyBag,
                 "panic", AtNext)
    ELSE LET match_id_from_riot == resp.ids[1]
             q == <<Call("ids", fs.oid, TRUE, match_id_from_riot)>>
         IN  IF ~IsNewMatch(fs.last_match_id, match_id_from_riot)
             THEN Outcome(q, coll, EmptyBag, "ok", AtNext)
             ELSE Outcome(q, coll, EmptyBag, "on",
                          Suspended("update", 0, NoMessage))

\* The update_one of update_follower_if_new_match completes; on Ok
\* send_match_update_to_discord is entered and asks for the match detail.
update_last_match_id(coll, cs, fs, ok) ==
    LET match_id_from_riot == cs[1].match IN
    IF ~ok
    THEN Outcome(Append(cs, Call("update", fs.oid, FALSE, match_id_from_riot)),
                 coll, EmptyBag, "err", AtNext)
    ELSE Outcome(Append(cs, Call("update", fs.oid, TRUE, match_id_from_riot)),
                 UpdateOneLastMatch(coll, fs.puuid, fs.guild_id,
                                    match_id_from_riot),
                 EmptyBag, "on", Suspended("info", 0, NoMessage))

\* send_match_update_to_discord up to the embed: get_matchs_info completes,
\* get_match_details(..).unwrap() gives the summary, and create_embed_loop
\* starts on its emoji lookups (none for a match without matchups).
send_match_update_to_discord(coll, cs, fs, infoOk, info) ==
    LET mid == cs[1].match
        details == get_match_details(info, fs.summoner_id)
    IN  IF ~infoOk
        THEN Outcome(Append(cs, Call("info", fs.oid, FALSE, mid)), coll,
                     EmptyBag, "err", AtNext)
        ELSE IF ~details.some
        THEN Outcome(Append(cs, Call("info", fs.oid, TRUE, mid)), coll,
                     EmptyBag, "panic", AtNext)
        ELSE LET lookups == EmojiLookupsPerMatchup * Len(details.val.matchups)
             IN  Outcome(Append(cs, Call("info", fs.oid, TRUE, mid)), coll,
                         EmptyBag, "on",
                         Suspended(IF lookups = 0 THEN "send" ELSE "embed",
                                   lookups,
                                   Notification(fs, mid, details.val)))

\* create_embed_loop: one get_emoji completes (its find_one on the emoji
\* collection; whatever it answers, an emoji or the fallback text is used).
create_embed_loop(coll, cs, at) ==
    Outcome(cs, coll, EmptyBag, "on",
            Suspended(IF at.left = 1 THEN "send" ELSE "embed", at.left - 1,
                      at.msg))

\* A sender that posts the message a second time.
send_message_twice(coll, cs, fs, at, sendOk) ==
    Outcome(Append(cs, Call("send", fs.oid, sendOk, at.msg.match)), coll,
            IF sendOk THEN SetToBag({at.msg}) (+) SetToBag({at.msg})
            ELSE EmptyBag,
            "ok", AtNext)

\* The send_message of send_match_update_to_discord completes; its result
\* is dropped (let _ =) and the processing of the record returns Ok.
send_message(coll, cs, fs, at, sendOk) ==
    Outcome(Append(cs, Call("send", fs.oid, sendOk, at.msg.match)), coll,
            IF sendOk THEN SetToBag({at.msg}) ELSE EmptyBag,
            "ok", AtNext)

\* No record visited yet in this pass.
NoRecord == [oid |-> 0]

\* The _ids of the documents of the collection.
StoredOids(coll) == {coll[i].oid : i \in 1..Len(coll)}

\* What the completion of a call of the pass before the for loop comes to.
Enumeration(cs, cur, followed, at, res) ==
    [calls |-> cs, cursor |-> cur, enumerated |-> followed, driver |-> at,
     result |-> res]

\* A count whose Err is taken for "not empty" instead of being returned.
check_and_update_db_count_ignored(coll, countOk) ==
    IF countOk /\ Len(coll) = 0
    THEN Enumeration(<<Call("count", 0, TRUE, NoMatch)>>, <<>>, <<>>,
                     "returned", "ok")
    ELSE Enumeration(<<Call("count", 0, countOk, NoMatch)>>, <<>>, <<>>,
                     "find", "running")

\* check_and_update_db up to get_followed_summoners: the
\* estimated_document_count completes; Err is returned, 0 returns Ok.
check_and_update_db(coll, countOk) ==
    IF ~countOk
    THEN Enumeration(<<Call("count", 0, FALSE, NoMatch)>>, <<>>, <<>>,
                     "returned", "err")
    ELSE IF Len(coll) = 0
    THEN Enumeration(<<Call("count", 0, TRUE, NoMatch)>>, <<>>, <<>>,
                     "returned", "ok")
    ELSE Enumeration(<<Call("count", 0, TRUE, NoMatch)>>, <<>>, <<>>,
                     "find", "running")

\* get_followed_summoners: its find(doc! {}) completes; the cursor holds the
\* documents of the collection as they are then.
find(coll, cs, findOk) ==
    IF ~findOk
    THEN Enumeration(Append(cs, Call("find", 0, FALSE, NoMatch)), <<>>, <<>>,
                     "returned", "err")
    ELSE Enumeration(Append(cs, Call("find", 0, TRUE, NoMatch)), coll, <<>>,
                     "cursor", "running")

\* get_followed_summoners: one cursor.next() completes.  A document that
\* deserializes is pushed, one that does not is logged and skipped; None
\* ends the enumeration, and check_and_update_db enters the for loop (or
\* returns Ok when there is nothing to iterate).
get_followed_summoners(cs, cur, followed, decodes) ==
    IF cur = <<>>
    THEN Enumeration(cs, <<>>, followed,
                     IF followed = <<>> THEN "returned" ELSE "loop",
                     IF followed = <<>> THEN "ok" ELSE "running")
    ELSE IF decodes
    THEN Enumeration(cs, Tail(cur), Append(followed, Head(cur)),
                     "cursor", "running")
    ELSE Enumeration(Append(cs, Call("decode", Head(cur).oid, FALSE, NoMatch)),
                     Tail(cur), followed, "cursor", "running")

\* The pass goes on as the enumeration step start tells; entering the for
\* loop, it enters process_followed_summoner for the first record.
Enumerates(start) ==
    /\ calls' = start.calls
    /\ cursor' = start.cursor
    /\ enumerated' = start.enumerated
    /\ driver' = start.driver
    /\ result' = start.result
    /\ pc' = IF start.driver = "loop"
             THEN process_followed_summoner(Head(start.enumerated), now)
             ELSE pc
    /\ UNCHANGED <<store, nextOid, now, latest, current, sent, requests,
                   lastFailure, sends>>

\* A driver that calls a pass at every interval, whether or not the
\* previous one has returned.
PassDueOnTimer == driver \in {"idle", "loop"}

\* The driver calls a pass when the previous one has returned and the
\* interval has elapsed.
PassDue == driver = "idle"

\* The driver calls check_and_update_db: the count of the collection
\* completes.
PassStart ==
    /\ PassDue
    /\ \E countOk \in BOOLEAN : Enumerates(check_and_update_db(store, countOk))

\* The find of get_followed_summoners completes.
CursorOpens ==
    /\ driver = "find"
    /\ \E findOk \in BOOLEAN : Enumerates(find(store, calls, findOk))

\* A cursor.next() completes; decoding tells which answers to "does the
\* document deserialize" are possible.
CursorYields(decoding) ==
    /\ driver = "cursor"
    /\ \E decodes \in decoding :
         Enumerates(get_followed_summoners(calls, cursor, enumerated, decodes))

\* A pass over a collection whose documents all deserialize (every document
\* the program writes does).
CursorNext == CursorYields({TRUE})

\* A pass over a collection some documents of which do not deserialize.
CursorNextSkipping == CursorYields(BOOLEAN)

\* What the first call for record fs can come to: the delete_one of
\* delete_follower, the latest-id query of update_follower_if_new_match.
Outcomes(coll, fs, at) ==
    IF at.at = "delete"
    THEN { delete_follower(coll, fs, ok) : ok \in BOOLEAN }
    ELSE { update_follower_if_new_match(coll, fs, resp) :
             resp \in IdsResponses(fs.puuid) }

\* What the history variable sends keeps of the calls cs made for record
\* fs: with "delivered", the sends the sink accepted, by pair, channel and
\* match; with "rejected", those it rejected, by record and match; with
\* "none", nothing.
SendCalls(recording, fs, cs) ==
    IF recording = "delivered"
    THEN { [puuid |-> fs.puuid, guild_id |-> fs.guild_id,
            channel_id |-> fs.channel_id, match |-> cs[k].match] :
             k \in {j \in 1..Len(cs) : cs[j].op = "send" /\ cs[j].ok} }
    ELSE IF recording = "rejected"
    THEN { [oid |-> fs.oid, match |-> cs[k].match] :
             k \in {j \in 1..Len(cs) : cs[j].op = "send" /\ ~cs[j].ok} }
    ELSE {}

\* The for loop goes on as the outcome out tells: ? returns the first Err,
\* a record that is done gives way to the next, for which
\* process_followed_summoner is entered at once, the end of the Vec returns
\* Ok.  recording tells what the history variable sends keeps.
ForLoopIteration(out, recording) ==
    LET fs == Head(enumerated)
        last == out.exit = "ok" /\ Len(enumerated) = 1
    IN  /\ current' = fs
        /\ calls' = out.calls
        /\ store' = out.store
        /\ sent' = out.sent
        /\ pc' = IF out.exit = "ok" /\ ~last
                 THEN process_followed_summoner(enumerated[2], now)
                 ELSE out.pc
        /\ enumerated' = IF out.exit = "ok" THEN Tail(enumerated) ELSE enumerated
        /\ driver' = IF out.exit = "panic" THEN "panicked"
                     ELSE IF out.exit = "err" \/ last THEN "returned"
                     ELSE "loop"
        /\ result' = IF out.exit = "panic" THEN "panic"
                     ELSE IF out.exit = "err" THEN "err"
                     ELSE IF last THEN "ok" ELSE "running"
        /\ sends' = sends \cup SendCalls(recording, fs, out.calls)
        /\ UNCHANGED <<nextOid, now, latest, cursor, requests, lastFailure>>

\* The first call for the next record of the Vec (delete_one or
\* get_matchs_id) completes.
FirstCallCompletes ==
    /\ driver = "loop"
    /\ pc.at \in FirstCalls
    /\ \E out \in Outcomes(store, Head(enumerated), pc) :
         ForLoopIteration(out, "none")

\* The update_one writing the new last_match_id completes.
UpdateCompletes ==
    /\ driver = "loop"
    /\ pc.at = "update"
    /\ \E ok \in BOOLEAN :
         ForLoopIteration(update_last_match_id(store, calls, current, ok), "none")

\* The get_matchs_info for the new match completes.
MatchInfoCompletes ==
    /\ driver = "loop"
    /\ pc.at = "info"
    /\ \E infoOk \in BOOLEAN, info \in MatchInfos :
         ForLoopIteration(
             send_match_update_to_discord(store, calls, current, infoOk, info),
             "none")

\* A get_emoji of create_embed_loop completes.
EmojiCompletes ==
    /\ driver = "loop"
    /\ pc.at = "embed"
    /\ ForLoopIteration(create_embed_loop(store, calls, pc), "none")

\* The send_message completes; recording as in ForLoopIteration.
SendCompletesWith(recording) ==
    /\ driver = "loop"
    /\ pc.at = "send"
    /\ \E sendOk \in BOOLEAN :
         ForLoopIteration(send_message(store, calls, current, pc, sendOk),
                          recording)

\* The send, without history.
SendCompletes == SendCompletesWith("none")

\* The same step, remembering the send when the sink accepted it.
SendCompletesRecording == SendCompletesWith("delivered")

\* The same step, remembering the send when the sink rejected it.
SendCompletesRecordingRejected == SendCompletesWith("rejected")

\* The driver logs an Err, then sleeps for the interval; the locals of the
\* pass are dropped and the record of the pass starts afresh.  failure is
\* what the history variable lastFailure keeps of the pass.
Sleep(failure) ==
    /\ driver = "returned"
    /\ driver' = "idle"
    /\ cursor' = <<>>
    /\ enumerated' = <<>>
    /\ current' = NoRecord
    /\ pc' = AtNext
    /\ calls' = <<>>
    /\ result' = "none"
    /\ sent' = EmptyBag
    /\ lastFailure' = failure
    /\ UNCHANGED <<store, nextOid, now, latest, requests, sends>>

\* The driver loop, without history.
DriverSleeps == Sleep(lastFailure)

\* The same step, remembering the record whose latest-id query failed and
\* ended the pass.
DriverSleepsRecording ==
    Sleep(IF result = "err" /\ calls[Len(calls)].op = "ids"
          THEN calls[Len(calls)].oid ELSE 0)

(***************************************************************************)
(* The /followgames command.                                               *)
(***************************************************************************)
NewDocument(account, ctx, mid, tef) ==
    [oid |-> nextOid,
     puuid |-> account.puuid,
     summoner_id |-> SummonerIdOf(account.puuid),
     name |-> account.game_name,
     tag |-> account.tag_line,
     region |-> "euw1",
     last_match_id |-> mid,
     time_end_follow |-> tef,
     channel_id |-> ctx.channel,
     guild_id |-> I64ToString(ctx.guild)]

\* An invocation of the command suspended at the store call named at
\* ("find", "update", "insert"), with the match id and the time_end_follow
\* it computed before it entered check_and_add_in_db.
Request(account, ctx, mid, tef, at) ==
    [account |-> account, ctx |-> ctx, match_id |-> mid,
     time_end_follow |-> tef, at |-> at]

\* A validation that only checks that the text is a number.
ValidHoursUnchecked(text) == ParseU32(Trim(text)).ok

\* The duration typed in the modal, validated as the handler does:
\* time_followed == 0 || time_followed > 48 is refused.
ValidHours(text) ==
    LET time_followed == ParseU32(Trim(text))
    IN  /\ time_followed.ok
        /\ ~(\/ time_followed.val = <<"0">>
             \/ DecLess(I64ToString(MaxFollowHours), time_followed.val))

\* The command handler up to check_and_add_in_db: validation of the
\* duration, Riot lookups (riotOk: they all answer, the match history is
\* not empty), time_end_follow from the clock; the handler then waits for
\* the find_one of check_and_add_in_db.  The awaits before get_matchs_id
\* read nothing that changes; the match id is the answer of get_matchs_id
\* and the clock is read as that call completes.
FollowRequest(account, ctx, text) ==
    IF ~ValidHours(text)
    THEN UNCHANGED requests
    ELSE \E riotOk \in BOOLEAN :
           IF ~riotOk
           THEN UNCHANGED requests
           ELSE requests' = requests (+) SetToBag({
                    Request(account, ctx, latest[account.puuid],
                            I64ToString(now + DecToInt(ParseU32(Trim(text)).val)
                                                 * SecondsPerHour),
                            "find")})

\* The command, for the texts of inputs in the duration field.
FollowWith(inputs) ==
    /\ BagCardinality(requests) < MaxInFlight
    /\ \E account \in Accounts, ctx \in Contexts, text \in inputs :
         FollowRequest(account, ctx, text)
    /\ UNCHANGED <<store, nextOid, now, latest, driver, cursor, enumerated,
                   current, pc, calls, sent, result, lastFailure, sends>>

followgames == FollowWith(TimeInputs)

\* A wider choice of texts for the duration field: the bounds 1 and 48, a
\* sign, surrounding white space, leading zeros, numbers beyond 32 bits and
\* texts the handler rejects.
AllTimeInputs ==
    TimeInputs \cup
    { <<"4", "8">>, <<"+", "1">>, <<"1", " ">>, <<"\t", "1", "\n">>,
      <<"U+00A0", "0", "0", "0", "0", "0", "0", "0", "0", "0", "1">>,
      <<>>, <<"-", "1">>, <<"1", ".", "5">>, <<"0", "0">>, <<"1", "U+200B">>,
      <<"4", "2", "9", "4", "9", "6", "7", "2", "9", "6">>,
      <<"4", "2", "9", "4", "9", "6", "7", "2", "9", "5">> }

followgamesAnyDuration == FollowWith(AllTimeInputs)

\* check_and_add_in_db: the find_one({puuid}) completes.  What becomes of
\* the invocation r: Err ends it, a first document of the player in this
\* guild sends it to update_one, anything else to insert_one.
check_and_add_in_db(coll, r, findOk) ==
    LET found == FindOneByPuuid(coll, r.account.puuid) IN
    IF ~findOk
    THEN EmptyBag
    ELSE IF found.some /\ found.val.guild_id = I64ToString(r.ctx.guild)
    THEN SetToBag({[r EXCEPT !.at = "update"]})
    ELSE SetToBag({[r EXCEPT !.at = "insert"]})

\* The find_one of one suspended invocation completes.
FindOneCompletes ==
    /\ \E r \in BagToSet(requests) :
         /\ r.at = "find"
         /\ \E findOk \in BOOLEAN :
              requests' = (requests (-) SetToBag({r}))
                             (+) check_and_add_in_db(store, r, findOk)
    /\ UNCHANGED <<store, nextOid, now, latest, driver, cursor, enumerated,
                   current, pc, calls, sent, result, lastFailure, sends>>

\* The update_one or insert_one of one suspended invocation completes; the
\* handler replies and ends.  The store assigns the _id of an insert.
WriteCompletes ==
    /\ \E r \in BagToSet(requests) :
         /\ r.at \in {"update", "insert"}
         /\ requests' = requests (-) SetToBag({r})
         /\ \E ok \in BOOLEAN :
              IF ~ok
              THEN UNCHANGED <<store, nextOid>>
              ELSE IF r.at = "update"
              THEN /\ store' = UpdateOneTimeEnd(store, r.account.puuid,
                                                I64ToString(r.ctx.guild),
                                                r.time_end_follow)
                   /\ UNCHANGED nextOid
              ELSE /\ nextOid <= MaxInserts
                   /\ store' = Append(store,
                                      NewDocument(r.account, r.ctx, r.match_id,
                                                  r.time_end_follow))
                   /\ nextOid' = nextOid + 1
    /\ UNCHANGED <<now, latest, driver, cursor, enumerated, current, pc,
                   calls, sent, result, lastFailure, sends>>

(***************************************************************************)
(* The /whoisfollowed command: a read of the store, answered in the reply. *)
(***************************************************************************)
SecondsPerMinute == 60
HoursPerDay == 24
MinutesPerHour == 60

\* The largest number of seconds Duration::seconds takes (i64::MAX
\* milliseconds); it panics above.
MaxDurationSeconds ==
    <<"9", "2", "2", "3", "3", "7", "2", "0", "3", "6", "8", "5", "4", "7",
      "7", "5">>

\* format_duration, on a positive number of seconds given as a numeral:
\* num_days(), num_hours() % 24 and num_minutes() % 60.
format_duration(seconds) ==
    LET days == DecDiv(seconds, HoursPerDay * SecondsPerHour) # <<"0">>
        hours == DecMod(DecDiv(seconds, SecondsPerHour), HoursPerDay)
        minutes == DecMod(DecDiv(seconds, SecondsPerMinute), MinutesPerHour)
    IN  IF days
        THEN IF hours > 0
             THEN IF hours = 1 THEN <<"in 1 day and 1 hour">>
                  ELSE <<"in 1 day and ">> \o I64ToString(hours) \o <<" hours">>
             ELSE <<"in 1 day">>
        ELSE IF hours > 0
        THEN IF hours = 1 THEN <<"in 1 hour">>
             ELSE <<"in ">> \o I64ToString(hours) \o <<" hours">>
        ELSE IF minutes > 0
        THEN IF minutes = 1 THEN <<"in 1 minute">>
             ELSE <<"in ">> \o I64ToString(minutes) \o <<" minutes">>
        ELSE <<"less than a minute">>

\* time_end_follow - current_timestamp, for a time_end_follow that parses.
remaining_duration(data, current_timestamp) ==
    DecSub(ParseI64(data.time_end_follow).val, I64ToString(current_timestamp))

\* The entry of a document makes the handler panic: time_end_follow is no
\* number (unwrap), the subtraction leaves the 64 bits (a panic in a debug
\* build; wrapped to a number Duration::seconds refuses in a release
\* build), or the remaining seconds are more than Duration::seconds takes.
EntryPanics(data, current_timestamp) ==
    \/ ~ParseI64(data.time_end_follow).ok
    \/ DecLess(remaining_duration(data, current_timestamp),
               Signed(TRUE, I64MinNumeral))
    \/ DecLess(MaxDurationSeconds, remaining_duration(data, current_timestamp))

\* One entry of the listing, for a document whose entry does not panic.
TrackedSummoner(data, current_timestamp) ==
    LET remaining == remaining_duration(data, current_timestamp)
    IN  [name |-> data.name,
         time_remaining |-> IF DecLess(<<"0">>, remaining)
                            THEN format_duration(remaining)
                            ELSE <<"Follow ended">>]

\* The entries of the documents of found, up to the first that panics.
Entries(found, current_timestamp) ==
    LET bad == {i \in 1..Len(found) : EntryPanics(found[i], current_timestamp)}
    IN  [ok |-> TRUE,
         panicked |-> bad # {},
         tracked_summoners |->
             [i \in 1..(IF bad = {} THEN Len(found) ELSE Min(bad) - 1) |->
                 TrackedSummoner(found[i], current_timestamp)]]

\* get_data_followed_summoner: an Err of find({guild_id}) is returned; an
\* item of the cursor that is an Err (a document that does not deserialize:
\* those with an _id in undecodable) is passed over without a log; every
\* other document of the guild gets one entry.
get_data_followed_summoner(coll, guild_id, current_timestamp, findOk, undecodable) ==
    IF ~findOk
    THEN [ok |-> FALSE, panicked |-> FALSE, tracked_summoners |-> <<>>]
    ELSE Entries(SelectSeq(coll, LAMBDA d : /\ d.guild_id = guild_id
                                            /\ d.oid \notin undecodable),
                 current_timestamp)

(***************************************************************************)
(* Environment: the clock and the Match Data Source.                       *)
(***************************************************************************)
\* Time passes, at any moment: between two passes, while a call of the
\* loop or of a command is under way, after the loop task has ended.
Tick ==
    /\ now < Epoch + MaxTime * HoursPerTick * SecondsPerHour
    /\ now' = now + HoursPerTick * SecondsPerHour
    /\ UNCHANGED <<store, nextOid, latest, driver, cursor, enumerated, current,
                   pc, calls, sent, result, requests, lastFailure, sends>>

\* The source starts reporting another id as the player's latest match, at
\* any moment; the history of sends starts afresh.
SourceReports ==
    /\ \E p \in Puuids, m \in MatchIds :
         /\ m # latest[p]
         /\ latest' = [latest EXCEPT ![p] = m]
    /\ sends' = {}
    /\ UNCHANGED <<store, nextOid, now, driver, cursor, enumerated, current,
                   pc, calls, sent, result, requests, lastFailure>>

\* A document an earlier run of the program left in the collection (the
\* database outlives the process): a follow from the first context whose
\* time_end_follow is the second the program starts at.
EarlierDocument ==
    [oid |-> 0 - 1,
     puuid |-> "P1",
     summoner_id |-> SummonerIdOf("P1"),
     name |-> "Faker",
     tag |-> "KR1",
     region |-> "euw1",
     last_match_id |-> "EUW1_1",
     time_end_follow |-> I64ToString(Epoch),
     channel_id |-> 11,
     guild_id |-> I64ToString(1)]

\* What the collection holds when the program starts.
InitialStores == { <<>>, <<EarlierDocument>> }

\* The program starts on the collection coll.
StartsOn(coll) ==
    /\ store = coll
    /\ nextOid = 1
    /\ now = Epoch
    /\ latest = [p \in Puuids |-> "EUW1_1"]
    /\ driver = "idle"
    /\ cursor = <<>>
    /\ enumerated = <<>>
    /\ current = NoRecord
    /\ pc = AtNext
    /\ calls = <<>>
    /\ sent = EmptyBag
    /\ result = "none"
    /\ requests = EmptyBag
    /\ lastFailure = 0
    /\ sends = {}

Init == \E coll \in InitialStores : StartsOn(coll)

Next ==
    \/ PassStart
    \/ CursorOpens
    \/ CursorNext
    \/ FirstCallCompletes
    \/ UpdateCompletes
    \/ MatchInfoCompletes
    \/ EmojiCompletes
    \/ SendCompletes
    \/ DriverSleeps
    \/ followgames
    \/ FindOneCompletes
    \/ WriteCompletes
    \/ Tick
    \/ SourceReports

Spec == Init /\ [][Next]_vars

\* The same program with the history variable lastFailure kept up to date.
NextHistory ==
    \/ PassStart
    \/ CursorOpens
    \/ CursorNext
    \/ FirstCallCompletes
    \/ UpdateCompletes
    \/ MatchInfoCompletes
    \/ EmojiCompletes
    \/ SendCompletes
    \/ DriverSleepsRecording
    \/ followgames
    \/ FindOneCompletes
    \/ WriteCompletes
    \/ Tick
    \/ SourceReports

SpecHistory == Init /\ [][NextHistory]_vars

\* The same program on a collection that may hold documents that do not
\* deserialize as SummonerFollowedData.
NextDecoding ==
    \/ PassStart
    \/ CursorOpens
    \/ CursorNextSkipping
    \/ FirstCallCompletes
    \/ UpdateCompletes
    \/ MatchInfoCompletes
    \/ EmojiCompletes
    \/ SendCompletes
    \/ DriverSleeps
    \/ followgames
    \/ FindOneCompletes
    \/ WriteCompletes
    \/ Tick
    \/ SourceReports

SpecDecoding == Init /\ [][NextDecoding]_vars

\* The follow command alone, over the wider choice of durations.
NextFollow ==
    \/ followgamesAnyDuration
    \/ FindOneCompletes
    \/ WriteCompletes
    \/ Tick
    \/ SourceReports

SpecFollow == Init /\ [][NextFollow]_vars

\* The same program with the rejected sends kept in the history variable
\* sends.
NextRejected ==
    \/ PassStart
    \/ CursorOpens
    \/ CursorNext
    \/ FirstCallCompletes
    \/ UpdateCompletes
    \/ MatchInfoCompletes
    \/ EmojiCompletes
    \/ SendCompletesRecordingRejected
    \/ DriverSleeps
    \/ followgames
    \/ FindOneCompletes
    \/ WriteCompletes
    \/ Tick
    \/ SourceReports

SpecRejected == Init /\ [][NextRejected]_vars

\* The same program with the delivered sends kept in the history variable
\* sends.
NextSends ==
    \/ PassStart
    \/ CursorOpens
    \/ CursorNext
    \/ FirstCallCompletes
    \/ UpdateCompletes
    \/ MatchInfoCompletes
    \/ EmojiCompletes
    \/ SendCompletesRecording
    \/ DriverSleeps
    \/ followgames
    \/ FindOneCompletes
    \/ WriteCompletes
    \/ Tick
    \/ SourceReports

SpecSends == Init /\ [][NextSends]_vars

\* The numeral of a second n hours after the program starts.
HoursAfterStart(n) == I64ToString(Epoch + n * SecondsPerHour)

\* Texts the time_end_follow of a document can hold (the field is a String
\* and the collection is open to other writers): not a number, empty, a
\* number after a blank, a number above i64::MAX, the second the program
\* starts at with a sign, the second of the first tick, a second long
\* past, a negative number, a second beyond 32 bits.
EndTexts ==
    { <<"x">>, <<>>,
      <<" ">> \o HoursAfterStart(HoursPerTick),
      <<"9", "2", "2", "3", "3", "7", "2", "0", "3", "6", "8", "5", "4", "7",
        "7", "5", "8", "0", "8">>,
      <<"+">> \o HoursAfterStart(0),
      HoursAfterStart(HoursPerTick),
      <<"3", "6", "0", "0">>,
      <<"-", "1">>,
      <<"9", "9", "9", "9", "9", "9", "9", "9", "9", "9">> }

\* A document of the first account for context ctx with text as its
\* time_end_follow.
DocumentWithEnd(oid, ctx, text) ==
    [oid |-> oid,
     puuid |-> "P1",
     summoner_id |-> SummonerIdOf("P1"),
     name |-> "Faker",
     tag |-> "KR1",
     region |-> "euw1",
     last_match_id |-> "EUW1_1",
     time_end_follow |-> text,
     channel_id |-> ctx.channel,
     guild_id |-> I64ToString(ctx.guild)]

FirstContext == [guild |-> 1, channel |-> 11]

SecondContext == [guild |-> 2, channel |-> 21]

\* Collections of one or two documents with any text of EndTexts.
StoresWithAnyEnd ==
    { <<DocumentWithEnd(0 - 1, FirstContext, text)>> : text \in EndTexts }
    \cup
    { <<DocumentWithEnd(0 - 2, FirstContext, a),
        DocumentWithEnd(0 - 1, SecondContext, b)>> : a, b \in EndTexts }

InitExpiry == \E coll \in StoresWithAnyEnd : StartsOn(coll)

\* The polling loop over documents with any text as time_end_follow.
NextExpiry ==
    \/ PassStart
    \/ CursorOpens
    \/ CursorNext
    \/ FirstCallCompletes
    \/ UpdateCompletes
    \/ MatchInfoCompletes
    \/ EmojiCompletes
    \/ SendCompletes
    \/ DriverSleeps
    \/ Tick
    \/ SourceReports

SpecExpiry == InitExpiry /\ [][NextExpiry]_vars

(***************************************************************************)
(* The program of src/main.rs: the earlier generation, whose documents     *)
(* (SummonerFollowedData of models.rs) have no guild_id and no channel_id. *)
(* Its pass reads and prints; its /followgames follows a player once,      *)
(* whatever the guild.                                                     *)
(***************************************************************************)
\* The document add_user_to_db inserts for invocation r.
MainDocument(r) ==
    [oid |-> nextOid,
     puuid |-> r.account.puuid,
     summoner_id |-> SummonerIdOf(r.account.puuid),
     name |-> r.account.game_name,
     tag |-> r.account.tag_line,
     region |-> "euw1",
     last_match_id |-> r.match_id,
     time_end_follow |-> r.time_end_follow]

\* followgames of commands/followgames.rs up to add_user_to_db: the same
\* validation, lookups and time_end_follow as the handler of module/.
commands_followgames == FollowWith(TimeInputs)

\* add_user_to_db: the find_one({puuid}) completes.  Err and a document of
\* the player end the invocation with an error reply ("Error user already
\* followed."); no document sends it to insert_one.
add_user_to_db(coll, r, findOk) ==
    IF ~findOk \/ FindOneByPuuid(coll, r.account.puuid).some
    THEN EmptyBag
    ELSE SetToBag({[r EXCEPT !.at = "insert"]})

AddUserFindCompletes ==
    /\ \E r \in BagToSet(requests) :
         /\ r.at = "find"
         /\ \E findOk \in BOOLEAN :
              requests' = (requests (-) SetToBag({r}))
                             (+) add_user_to_db(store, r, findOk)
    /\ UNCHANGED <<store, nextOid, now, latest, driver, cursor, enumerated,
                   current, pc, calls, sent, result, lastFailure, sends>>

\* The insert_one of add_user_to_db completes; the handler replies and
\* ends.
AddUserInsertCompletes ==
    /\ \E r \in BagToSet(requests) :
         /\ r.at = "insert"
         /\ requests' = requests (-) SetToBag({r})
         /\ \E ok \in BOOLEAN :
              IF ~ok
              THEN UNCHANGED <<store, nextOid>>
              ELSE /\ nextOid <= MaxInserts
                   /\ store' = Append(store, MainDocument(r))
                   /\ nextOid' = nextOid + 1
    /\ UNCHANGED <<now, latest, driver, cursor, enumerated, current, pc,
                   calls, sent, result, lastFailure, sends>>

\* A step of the pass of main.rs: the calls made for the document at hand,
\* the cursor, the document, where the pass is and what it has returned.
MainStep(cs, cur, doc, at, res) ==
    /\ calls' = cs
    /\ cursor' = cur
    /\ current' = doc
    /\ driver' = at
    /\ result' = res
    /\ UNCHANGED <<store, nextOid, now, latest, enumerated, pc, sent,
                   requests, lastFailure, sends>>

\* The driver calls the check_and_update_db of main.rs: the count of the
\* collection completes; Err is returned, 0 returns Ok.
MainPassStart ==
    /\ PassDue
    /\ \E countOk \in BOOLEAN :
         IF ~countOk
         THEN MainStep(<<Call("count", 0, FALSE, NoMatch)>>, <<>>, NoRecord,
                       "returned", "err")
         ELSE IF Len(store) = 0
         THEN MainStep(<<Call("count", 0, TRUE, NoMatch)>>, <<>>, NoRecord,
                       "returned", "ok")
         ELSE MainStep(<<Call("count", 0, TRUE, NoMatch)>>, <<>>, NoRecord,
                       "find", "running")

\* Its find(doc! {}) completes.
MainCursorOpens ==
    /\ driver = "find"
    /\ \E findOk \in BOOLEAN :
         IF ~findOk
         THEN MainStep(<<Call("find", 0, FALSE, NoMatch)>>, <<>>, NoRecord,
                       "returned", "err")
         ELSE MainStep(<<Call("find", 0, TRUE, NoMatch)>>, store, NoRecord,
                       "cursor", "running")

\* A cursor.next() completes: None ends the pass with Ok, a document that
\* does not deserialize is printed, for any other get_matchs_id is called.
MainCursorNext ==
    /\ driver = "cursor"
    /\ IF cursor = <<>>
       THEN MainStep(calls, <<>>, current, "returned", "ok")
       ELSE \E decodes \in BOOLEAN :
              IF decodes
              THEN MainStep(<<>>, Tail(cursor), Head(cursor), "ids", "running")
              ELSE MainStep(<<Call("decode", Head(cursor).oid, FALSE, NoMatch)>>,
                            Tail(cursor), current, "cursor", "running")

\* The get_matchs_id for the document at hand completes: unwrap() panics
\* on Err and [0] on an empty list; otherwise the id is compared with the
\* last_match_id of the document and one of two lines is printed.
MainIdsCompletes ==
    /\ driver = "ids"
    /\ \E resp \in IdsResponses(current.puuid) :
         IF ~resp.ok \/ resp.ids = <<>>
         THEN MainStep(<<Call("ids", current.oid, resp.ok, NoMatch)>>, cursor,
                       current, "panicked", "panic")
         ELSE MainStep(<<Call("ids", current.oid, TRUE, resp.ids[1]),
                         Call(IF current.last_match_id = resp.ids[1]
                              THEN "pas de nouvelle partie"
                              ELSE "Nouvelle partie pour",
                              current.oid, TRUE, resp.ids[1])>>,
                       cursor, current, "cursor", "running")

\* A document the program of main.rs left in the collection earlier.
MainEarlierDocument ==
    [field \in DOMAIN EarlierDocument \ {"guild_id", "channel_id"} |->
        EarlierDocument[field]]

InitMain == \E coll \in { <<>>, <<MainEarlierDocument>> } : StartsOn(coll)

NextMain ==
    \/ MainPassStart
    \/ MainCursorOpens
    \/ MainCursorNext
    \/ MainIdsCompletes
    \/ DriverSleeps
    \/ commands_followgames
    \/ AddUserFindCompletes
    \/ AddUserInsertCompletes
    \/ Tick
    \/ SourceReports

SpecMain == InitMain /\ [][NextMain]_vars

(***************************************************************************)
(* Properties.                                                             *)
(***************************************************************************)
\* The documents of the collection with _id oid.
StoredWithOid(oid) == {store[i] : i \in {j \in 1..Len(store) : store[j].oid = oid}}

\* A record has been visited in the running or the last pass.
Visited == current # NoRecord

\* The processing of the visited record has come to its end (done, Err or
\* panic): the loop waits for no call, or for the first call of the next
\* record.
Processed == Visited /\ pc.at \in FirstCalls \cup {"next"}

\* The call that ended the pass failed on the Match Data Source's latest-id
\* query for the visited record.
IdsQueryFailed ==
    Visited /\ calls = <<Call("ids", current.oid, FALSE, NoMatch)>>

\* C1: when the latest-id query of the Match Data Source fails for record k
\* of a pass, the pass returns to the driver only after every other
\* enumerated record has been processed: none is left unvisited.
IsolationWithinPass ==
    (driver = "returned" /\ IdsQueryFailed) => Tail(enumerated) = <<>>

\* Every call made for the visited record succeeded, from the latest-id
\* query reporting a new id through update, detail fetch and send.
ChangeHandled ==
    /\ Processed
    /\ Len(calls) = 4
    /\ \A k \in 1..4 : calls[k].ok /\ calls[k].oid = current.oid
    /\ calls[1].op = "ids" /\ calls[4].op = "send"

\* C2: after a non-expired record with stored id A was processed while the
\* source reported B # A, exactly one notification, built from B's detail,
\* was sent to the record's channel and the record's stored last_match_id
\* is B.
UpdateAndNotifyOnChange ==
    ChangeHandled =>
      /\ BagCardinality(sent) = 1
      /\ \A n \in BagToSet(sent) :
           n.match = calls[1].match /\ n.channel_id = current.channel_id
      /\ StoredWithOid(current.oid) # {}
      /\ \A d \in StoredWithOid(current.oid) : d.last_match_id = calls[1].match

\* The document of the collection the loop is about to process: the stored
\* state of the record at the head of followed_summoners.
StoredHead == StoredWithOid(Head(enumerated).oid)

\* The step is one of the for loop: a call made for the head of
\* followed_summoners completes (the steps of the commands leave calls and
\* pc alone).
LoopStep == driver = "loop" /\ (calls' # calls \/ pc' # pc)

\* The step is the completion of the first call process_followed_summoner
\* makes for the head of followed_summoners.
FirstCallStep == LoopStep /\ pc.at \in FirstCalls

\* The step enters process_followed_summoner for a record, the head of
\* followed_summoners after the step: the enumeration ends, or the record
\* before it is done.  The expiry test reads the clock of the step.
EntryStep ==
    /\ driver' = "loop"
    /\ \/ driver = "cursor"
       \/ LoopStep /\ enumerated' # enumerated

\* The step processes a record the loop found not expired, and the Match
\* Data Source reports as latest the id the record has stored.
UnchangedMatchStep ==
    /\ FirstCallStep
    /\ pc.at = "ids"
    /\ \E d \in StoredHead :
         calls'[1] = Call("ids", d.oid, TRUE, d.last_match_id)

\* C3: processing a non-expired record whose stored last_match_id is the
\* id the source reports writes nothing to the store, fetches no match
\* detail (the latest-id query is the only call, and the processing of the
\* record ends with it) and sends no notification; the record is one the
\* expiry test found not expired when its processing began.
NoOpOnUnchangedMatch ==
    [][/\ UnchangedMatchStep =>
            /\ store' = store
            /\ Len(calls') = 1
            /\ pc'.at \in FirstCalls \cup {"next"}
            /\ enumerated' = Tail(enumerated)
            /\ sent' = EmptyBag
       /\ (EntryStep /\ pc'.at = "ids") =>
            ~is_follow_time_expired(Head(enumerated'), now)]_vars

\* C3 witness: a record was processed with the source reporting its stored
\* id, and the pass went on.
UnchangedMatchProcessed ==
    /\ Processed
    /\ driver \in {"loop", "returned"}
    /\ result \in {"running", "ok"}
    /\ calls = <<Call("ids", current.oid, TRUE, current.last_match_id)>>
    /\ \E d \in StoredWithOid(current.oid) :
         d.last_match_id = current.last_match_id

\* No call on the store failed in the pass that has returned.
NoStoreCallFailed ==
    \/ result = "ok"
    \/ result = "err" /\ calls[Len(calls)].op \in {"ids", "info"}

\* C4: once a pass has run, no record whose time_end_follow was earlier
\* than the current time all through the pass (it was when the program
\* started) is left in the store, and no notification was sent for such a
\* record.
ExpiryDeterminism ==
    /\ (driver = "returned" /\ NoStoreCallFailed) =>
         \A i \in 1..Len(store) : ~is_follow_time_expired(store[i], Epoch)
    /\ (Visited /\ is_follow_time_expired(current, Epoch)) => sent = EmptyBag

\* C5: the store holds at most one record per (puuid, guild_id) pair.
UniquePerPuuidAndGuild ==
    \A i, j \in 1..Len(store) :
       (store[i].puuid = store[j].puuid /\ store[i].guild_id = store[j].guild_id)
          => i = j

\* The records of one origin scope, in store order.
OfGuild(coll, g) == SelectSeq(coll, LAMBDA d : d.guild_id = g)

GuildIds == {I64ToString(ctx.guild) : ctx \in Contexts}

\* C6: an operation on the record of one origin scope (deletion or
\* last_match_id update by the loop, insertion or time_end_follow refresh
\* by a follow) leaves the records of every other scope as they were:
\* a step changes the records of one scope at most, and a step of the loop
\* only those of the scope of the record it processes.
CrossScopeIndependence ==
    [][/\ \A g1, g2 \in GuildIds :
            g1 # g2 => \/ OfGuild(store', g1) = OfGuild(store, g1)
                       \/ OfGuild(store', g2) = OfGuild(store, g2)
       /\ LoopStep =>
            \A g \in GuildIds :
               g # Head(enumerated).guild_id
                  => OfGuild(store', g) = OfGuild(store, g)]_vars

\* C6 witness: the loop has deleted the expired record of one scope while
\* the same player's record of another scope is in the store.
OtherScopeSurvivesDeletion ==
    /\ Visited
    /\ calls = <<Call("delete", current.oid, TRUE, NoMatch)>>
    /\ StoredWithOid(current.oid) = {}
    /\ \E i \in 1..Len(store) :
         /\ store[i].puuid = current.puuid
         /\ store[i].guild_id # current.guild_id

\* C7: whatever way a pass fails, the driver task stays alive to start
\* another pass after the interval: it is never dead.
LoopSurvival == driver # "panicked"

\* C8: a new match id is never recorded as the last_match_id of the visited
\* record without a notification for that id having been delivered to the
\* record's channel, once the processing of the record has ended.
AtLeastOnceNotification ==
    Processed =>
      \A d \in StoredWithOid(current.oid) :
         d.last_match_id # current.last_match_id
            => \E n \in BagToSet(sent) :
                  /\ n.match = d.last_match_id
                  /\ n.channel_id = current.channel_id

\* A call to the Match Data Source or to the Notification Sink failed while
\* the visited record was processed.
ExternalCallFailed ==
    /\ Visited
    /\ \E k \in 1..Len(calls) :
         calls[k].op \in {"ids", "info", "send"} /\ ~calls[k].ok

\* C9: when a call to the Match Data Source or the Notification Sink fails
\* while a record is processed, the record is still stored with the
\* last_match_id it had before the tick.
ExternalFailureLeavesState ==
    ExternalCallFailed =>
      /\ StoredWithOid(current.oid) # {}
      /\ \A d \in StoredWithOid(current.oid) :
            d.last_match_id = current.last_match_id

\* C10: when the latest-id query fails for a record, nothing is written or
\* sent for it in that tick, and the pass of the next tick does not return
\* to the driver with that record, still followed, left unvisited.
LatestIdFailureRetried ==
    /\ IdsQueryFailed =>
         /\ sent = EmptyBag
         /\ \A d \in StoredWithOid(current.oid) :
               d.last_match_id = current.last_match_id
    /\ (driver = "returned" /\ lastFailure # 0) =>
         \A i \in 2..Len(enumerated) :
            ~(/\ enumerated[i].oid = lastFailure
              /\ ~is_follow_time_expired(enumerated[i], now))

\* The update of last_match_id or the expiry delete failed for the visited
\* record.
StoreWriteFailed ==
    /\ Visited
    /\ calls[Len(calls)].op \in {"update", "delete"}
    /\ ~calls[Len(calls)].ok

\* C11: when the update of last_match_id or the expiry delete fails for a
\* record, the record is still stored with its prior last_match_id, nothing
\* was sent for it, and the pass returns to the driver only after the
\* remaining records have been processed.
StoreWriteFailureContained ==
    (driver = "returned" /\ StoreWriteFailed) =>
      /\ StoredWithOid(current.oid) # {}
      /\ \A d \in StoredWithOid(current.oid) :
            d.last_match_id = current.last_match_id
      /\ sent = EmptyBag
      /\ Tail(enumerated) = <<>>

\* C12 (as stated): the loop never replaces the stored last_match_id of a
\* record with the id of an older match.
LastMatchIdNeverMovesBack ==
    [][LoopStep =>
         \A i \in 1..Len(store), j \in 1..Len(store') :
            store'[j].oid = store[i].oid
               => Recency(store'[j].last_match_id)
                    >= Recency(store[i].last_match_id)]_vars

\* C12 (amended): the loop writes a last_match_id only after a successful
\* latest-id query, the id written is the one the query reported, it
\* differs from the last_match_id of the record being processed, and a
\* stored last_match_id changes to nothing but that id.
OverwrittenWithReportedLatest ==
    [][LoopStep =>
         /\ \A k \in 1..Len(calls') :
               calls'[k].op = "update"
                  => /\ calls'[1] = Call("ids", Head(enumerated).oid, TRUE,
                                         calls'[k].match)
                     /\ calls'[k].match \in MatchIds
                     /\ calls'[k].match # Head(enumerated).last_match_id
         /\ \A i \in 1..Len(store), j \in 1..Len(store') :
               (/\ store'[j].oid = store[i].oid
                /\ store'[j].last_match_id # store[i].last_match_id)
                  => /\ pc.at = "update"
                     /\ calls'[Len(calls')] =
                           Call("update", Head(enumerated).oid, TRUE,
                                store'[j].last_match_id)]_vars

\* C12 witness: the source reverted to an older id and the loop stored it.
StoredIdMovedBack ==
    /\ Visited
    /\ Len(calls) >= 2
    /\ calls[2].op = "update" /\ calls[2].ok
    /\ Recency(calls[2].match) < Recency(current.last_match_id)
    /\ \E d \in StoredWithOid(current.oid) : d.last_match_id = calls[2].match

\* The step starts a pass: check_and_update_db counts the collection.
PassStarts == calls' # calls /\ Len(calls') = 1 /\ calls'[1].op = "count"

\* C13: a pass starts only when no pass is in progress, and the interval
\* before the next pass starts only once the current pass has returned; a
\* driver that is between passes holds nothing of a pass.
NoOverlappingPasses ==
    [][/\ PassStarts =>
            /\ driver = "idle"
            /\ cursor = <<>> /\ enumerated = <<>> /\ current = NoRecord
            /\ pc = AtNext /\ result = "none"
       /\ (driver # "idle" /\ driver' = "idle") => driver = "returned"
       /\ driver \in {"find", "cursor", "loop"} => result = "running"
       /\ driver = "loop" => enumerated # <<>>]_vars

\* C13 witness: a pass is in progress, one record done and more to go.
PassInProgress ==
    /\ driver = "loop"
    /\ Visited
    /\ result = "running"
    /\ enumerated # <<>>

\* The documents the enumeration logged as failing to deserialize.
SkippedOids(cs) == {cs[k].oid : k \in {j \in 1..Len(cs) : cs[j].op = "decode"}}

\* The step is the completion of a cursor.next() of the enumeration.
CursorStep == driver = "cursor" /\ (cursor' # cursor \/ driver' # driver)

\* C14: an enumeration in which documents fail to deserialize returns every
\* other document of the collection, in order, and the pass processes them:
\* a document that fails is logged and skipped, the next document is read
\* after it, the end of the cursor hands the documents read to the for loop
\* without any error, and the pass does not end with one of them left
\* unvisited.  (calls holds the log of the enumeration until the first call
\* made for the first record completes.)
EnumerationSkipsBadDocuments ==
    [][/\ (CursorStep /\ cursor # <<>>) =>
            /\ cursor' = Tail(cursor)
            /\ driver' = "cursor" /\ result' = "running"
            /\ \/ /\ enumerated' = Append(enumerated, Head(cursor))
                  /\ calls' = calls
               \/ /\ enumerated' = enumerated
                  /\ calls' = Append(calls, Call("decode", Head(cursor).oid,
                                                 FALSE, NoMatch))
       /\ (CursorStep /\ cursor = <<>>) =>
            /\ enumerated' = enumerated
            /\ calls' = calls
            /\ result' = IF enumerated = <<>> THEN "ok" ELSE "running"
            /\ driver' = IF enumerated = <<>> THEN "returned" ELSE "loop"
       /\ driver = "cursor" =>
            /\ \A k \in 1..Len(enumerated) :
                  enumerated[k].oid \notin SkippedOids(calls)
            /\ \A i, j \in 1..Len(enumerated \o cursor) :
                  i < j => (enumerated \o cursor)[i].oid
                              < (enumerated \o cursor)[j].oid
       /\ (driver = "loop" /\ SkippedOids(calls) # {} /\ driver' # "loop") =>
            Len(enumerated') <= 1]_vars

\* The count or the enumeration of the pass failed.
PassLevelFailure(cs) ==
    \E k \in 1..Len(cs) : cs[k].op \in {"count", "find"} /\ ~cs[k].ok

\* C15: a pass whose count or enumeration call fails returns to the driver
\* at once, having changed nothing in the store, queried the source for no
\* record and sent nothing; the driver then sleeps and holds nothing of the
\* failed pass when the next one starts.
PassLevelFailureIsNoOp ==
    [][/\ (calls' # calls /\ PassLevelFailure(calls')) =>
            /\ store' = store
            /\ sent' = EmptyBag
            /\ enumerated' = <<>> /\ cursor' = <<>>
            /\ current' = NoRecord
            /\ driver' = "returned" /\ result' = "err"
            /\ \A k \in 1..Len(calls') : calls'[k].op \in {"count", "find"}
       /\ (driver = "returned" /\ PassLevelFailure(calls) /\ driver' # driver) =>
            /\ driver' = "idle"
            /\ store' = store
            /\ enumerated' = <<>> /\ current' = NoRecord /\ calls' = <<>>
            /\ sent' = EmptyBag /\ result' = "none"]_vars

\* C15 witness: the enumeration of a non-empty collection failed.
EnumerationFailed ==
    /\ driver = "returned"
    /\ result = "err"
    /\ store # <<>>
    /\ calls = <<Call("count", 0, TRUE, NoMatch), Call("find", 0, FALSE, NoMatch)>>

\* C16: for a record whose time_end_follow has passed when its processing
\* begins, the loop issues the delete and nothing else: no Match Data
\* Source query, no notification, and the processing of the record ends
\* with the delete.  It queries the source only for records that are in
\* the store, and it never adds a record to the store: a deleted record is
\* not recreated by a later pass.
ExpiredNeverPolled ==
    [][/\ (EntryStep /\ is_follow_time_expired(Head(enumerated'), now)) =>
            pc'.at = "delete"
       /\ (FirstCallStep /\ pc.at = "delete") =>
            /\ Len(calls') = 1 /\ calls'[1].op = "delete"
            /\ pc'.at \in FirstCalls \cup {"next"}
            /\ sent' = EmptyBag
       /\ (FirstCallStep /\ calls'[1].op = "ids") =>
            Head(enumerated).oid \in StoredOids(store)
       /\ LoopStep => StoredOids(store') \subseteq StoredOids(store)]_vars

\* C16 witness: the loop found a record expired, one that a follow request
\* of this run had created, and deleted it.
ExpiredRecordDeleted ==
    /\ Processed
    /\ current.oid > 0
    /\ is_follow_time_expired(current, now)
    /\ calls = <<Call("delete", current.oid, TRUE, NoMatch)>>
    /\ sent = EmptyBag
    /\ StoredWithOid(current.oid) = {}

\* Texts of the duration field that are not a number of hours from 1 to 48.
InvalidDurations ==
    { <<"0">>, <<"4", "9">>, <<"x">>, <<>>, <<"-", "1">>, <<"1", ".", "5">>,
      <<"0", "0">>, <<"1", "U+200B">>,
      <<"4", "2", "9", "4", "9", "6", "7", "2", "9", "6">>,
      <<"4", "2", "9", "4", "9", "6", "7", "2", "9", "5">> }

\* The windows of 1 to 48 hours, in seconds.
Windows == {h * 3600 : h \in 1..48}

\* Text tef is the decimal form of a second 1 to 48 hours after t.
InWindowFrom(t, tef) == \E w \in Windows : tef = I64ToString(t + w)

\* The values the clock has had up to now.
ClockReadings ==
    {t \in {Epoch + k * HoursPerTick * SecondsPerHour : k \in 0..MaxTime} :
        t <= now}

\* The texts of the duration field the validation of the handler accepts.
AcceptedDurations == {text \in AllTimeInputs : ValidHours(text)}

\* C17: a request that goes on to the store has a time_end_follow of the
\* time the handler read the clock plus 1 to 48 hours, later than that
\* time, and keeps it while its store calls are under way; the
\* time_end_follow a follow creates or refreshes a record with is that of
\* its request; a request with duration 0, above 48 or not a number is
\* rejected by the validation, and only an accepted request goes on to the
\* store.
FollowWindowBound ==
    [][/\ \A j \in 1..Len(store') :
            (j > Len(store) \/ store'[j].time_end_follow # store[j].time_end_follow)
               => \E r \in BagToSet(requests) :
                     /\ r.at \in {"update", "insert"}
                     /\ r.time_end_follow = store'[j].time_end_follow
       /\ BagCardinality(requests') > BagCardinality(requests) =>
            /\ \A r \in BagToSet(requests' (-) requests) :
                  /\ InWindowFrom(now, r.time_end_follow)
                  /\ ~is_follow_time_expired(r, now)
            /\ \E account \in Accounts, ctx \in Contexts,
                  text \in AcceptedDurations :
                     FollowRequest(account, ctx, text)
       /\ \A r \in BagToSet(requests') :
             \E t \in ClockReadings : InWindowFrom(t, r.time_end_follow)
       /\ AcceptedDurations \cap InvalidDurations = {}]_vars

\* C17 witness: records stand with the shortest and the longest window.
WindowBoundsFollowed ==
    /\ \E i, j \in 1..Len(store) :
         /\ store[i].time_end_follow = I64ToString(now + 48 * 3600)
         /\ store[j].time_end_follow = I64ToString(now + 1 * 3600)

\* C18: whether a record has a new match is decided by inequality of the
\* stored last_match_id and the id the source returned, nothing else: an
\* equal id ends the processing, any other id (also that of an older
\* match) is written to the store and, the calls succeeding, notified.
ExactIdentityComparison ==
    [][LoopStep =>
         LET fs == Head(enumerated) IN
         /\ (pc.at = "ids" /\ calls'[1].match \in MatchIds) =>
              /\ calls'[1].op = "ids"
              /\ calls'[1].match = fs.last_match_id =>
                    /\ pc'.at \in FirstCalls \cup {"next"}
                    /\ Len(calls') = 1
                    /\ enumerated' = Tail(enumerated)
              /\ calls'[1].match # fs.last_match_id =>
                    /\ pc'.at = "update"
                    /\ enumerated' = enumerated
         /\ pc.at = "update" =>
              /\ calls'[2].op = "update" /\ calls'[2].match = calls[1].match
              /\ calls'[2].ok =>
                    \E i \in 1..Len(store') :
                       /\ store'[i].puuid = fs.puuid
                       /\ store'[i].guild_id = fs.guild_id
                       /\ store'[i].last_match_id = calls[1].match
         /\ (pc.at = "send" /\ calls'[Len(calls')].ok) =>
              \E n \in BagToSet(sent') :
                 n.match = calls[1].match /\ n.channel_id = fs.channel_id]_vars

\* C18 witness: the id of an older match was reported, stored and notified.
EarlierIdTreatedAsNew ==
    /\ ChangeHandled
    /\ Recency(calls[1].match) < Recency(current.last_match_id)
    /\ \E n \in BagToSet(sent) : n.match = calls[1].match
    /\ \E d \in StoredWithOid(current.oid) : d.last_match_id = calls[1].match

\* C20: whatever the cursor makes of the documents, the listing
\* /whoisfollowed gives in a guild has one entry per stored record of that
\* guild, in store order and under the record's name, and none for other
\* records; a record whose time_end_follow has passed is listed as
\* "Follow ended", one whose time_end_follow is ahead is not; the listing is
\* the one the guild's records alone would give, whatever records other
\* guilds have.  (A failed find gives an error and no listing.)
ScopeLimitedListing ==
    \A g \in GuildIds, findOk \in BOOLEAN, undecodable \in SUBSET StoredOids(store) :
       LET records == OfGuild(store, g)
           reply == get_data_followed_summoner(store, g, now, findOk, undecodable)
           listing == reply.tracked_summoners
       IN  /\ reply.ok = findOk
           /\ reply.ok =>
                /\ ~reply.panicked
                /\ Len(listing) = Len(records)
                /\ \A k \in 1..Len(records) :
                      /\ listing[k].name = records[k].name
                      /\ now > DecToInt(ParseI64(records[k].time_end_follow).val)
                            => listing[k].time_remaining = <<"Follow ended">>
                      /\ now < DecToInt(ParseI64(records[k].time_end_follow).val)
                            => listing[k].time_remaining # <<"Follow ended">>
                /\ reply = get_data_followed_summoner(records, g, now, findOk,
                                                      undecodable)

\* The first document the filter {puuid, guild_id} of record fs matches.
FirstOfPair(coll, fs) ==
    {coll[i] : i \in {j \in ByPuuidAndGuild(coll, fs.puuid, fs.guild_id) :
                        j = Min(ByPuuidAndGuild(coll, fs.puuid, fs.guild_id))}}

\* C21: for the visited record, the match detail is asked for and the
\* notification is sent only after the latest-id query reported an id B
\* other than the record's last_match_id and the update_one writing B has
\* succeeded, in that order; a message for B is delivered only then, and
\* the document that update_one matched holds B.
UpdateThenNotify ==
    Visited =>
      /\ \A k \in 1..Len(calls) :
            calls[k].op \in {"info", "send"} =>
               /\ k > 2
               /\ calls[1] = Call("ids", current.oid, TRUE, calls[k].match)
               /\ calls[2] = Call("update", current.oid, TRUE, calls[k].match)
               /\ calls[k].match # current.last_match_id
      /\ pc.at \in {"info", "embed", "send"} =>
            /\ Len(calls) >= 2
            /\ calls[1].op = "ids" /\ calls[1].ok
            /\ calls[1].match # current.last_match_id
            /\ calls[2] = Call("update", current.oid, TRUE, calls[1].match)
      /\ \A k \in 1..Len(calls) :
            (calls[k].op = "update" /\ ~calls[k].ok) => k = Len(calls)
      /\ \A n \in BagToSet(sent) :
            /\ Len(calls) = 4
            /\ calls[2] = Call("update", current.oid, TRUE, n.match)
            /\ calls[4] = Call("send", current.oid, TRUE, n.match)
            /\ FirstOfPair(store, current) # {}
            /\ \A d \in FirstOfPair(store, current) : d.last_match_id = n.match

\* C21 witness: the update succeeded and the notification followed it.
NotifiedAfterUpdate ==
    /\ Visited
    /\ Len(calls) = 4
    /\ calls[2].op = "update" /\ calls[2].ok
    /\ calls[3].op = "info" /\ calls[3].ok
    /\ calls[4].op = "send" /\ calls[4].ok
    /\ \E n \in BagToSet(sent) :
          /\ n.match = calls[2].match
          /\ \E d \in StoredWithOid(current.oid) : d.last_match_id = n.match

\* The step is the completion of a send that the Notification Sink rejects.
SendRejectedStep ==
    /\ LoopStep
    /\ pc.at = "send"
    /\ ~calls'[Len(calls')].ok

\* C22: when the sink rejects the message for a record, the processing of
\* the record returns Ok (the loop goes on to the next record, or the pass
\* returns Ok after the last), the update of last_match_id stays as written,
\* and as long as the source keeps reporting the same id no later step
\* delivers a notification of that match for that record.
SwallowedSendFailure ==
    [][/\ SendRejectedStep =>
            /\ enumerated' = Tail(enumerated)
            /\ result' = IF Tail(enumerated) = <<>> THEN "ok" ELSE "running"
            /\ driver' = IF Tail(enumerated) = <<>> THEN "returned" ELSE "loop"
            /\ sent' = EmptyBag
            /\ store' = store
            /\ \A d \in FirstOfPair(store', Head(enumerated)) :
                  d.last_match_id = calls[1].match
       /\ LoopStep =>
            \A n \in BagToSet(sent') :
               ~\E s \in sends : /\ s.oid = Head(enumerated).oid
                                 /\ s.match = n.match]_vars

\* Texts of EndTexts that are no integer for str::parse::<i64>.
NotAnInteger ==
    { <<"x">>, <<>>, <<" ">> \o HoursAfterStart(HoursPerTick),
      <<"9", "2", "2", "3", "3", "7", "2", "0", "3", "6", "8", "5", "4", "7",
        "7", "5", "8", "0", "8">> }

\* The text of EndTexts that is a second no clock of the model reaches.
NeverReached == <<"9", "9", "9", "9", "9", "9", "9", "9", "9", "9">>

\* The second a time_end_follow text of EndTexts stands for in the expiry
\* test, NeverReached apart.
ExpectedEnd(text) ==
    IF text \in NotAnInteger THEN 0
    ELSE IF text = <<"+">> \o HoursAfterStart(0) THEN Epoch
    ELSE IF text = <<"-", "1">> THEN 0 - 1
    ELSE CHOOSE n \in {3600, Epoch + HoursPerTick * SecondsPerHour} :
            I64ToString(n) = text

\* The record counts as expired at second t.
ExpectedExpired(text, t) == text # NeverReached /\ t > ExpectedEnd(text)

\* C23: the loop treats a record as expired exactly when the current time,
\* read as its processing begins, is greater than its time_end_follow read
\* as an integer; it deletes the record then and polls it otherwise, also
\* at the very second time_end_follow; a time_end_follow that is no integer
\* counts as 0, so such a record is deleted whenever it is processed.
ExpiryBoundary ==
    [][/\ EntryStep =>
            LET fs == Head(enumerated') IN
            /\ pc'.at = IF ExpectedExpired(fs.time_end_follow, now)
                        THEN "delete" ELSE "ids"
            /\ fs.time_end_follow \in NotAnInteger => pc'.at = "delete"
       /\ FirstCallStep =>
            LET fs == Head(enumerated) IN
            /\ pc.at = "delete" =>
                  /\ calls' = <<Call("delete", fs.oid, calls'[1].ok, NoMatch)>>
                  /\ calls'[1].ok => fs.oid \notin StoredOids(store')
            /\ pc.at = "ids" =>
                  /\ calls'[1].op = "ids"
                  /\ store' = store]_vars

\* C23 witness: a pass polled a record at the second of its time_end_follow
\* and kept it, then deleted a record whose time_end_follow is no integer.
KeptAtTimeEndAndDeletedUnparsed ==
    /\ Visited
    /\ current.time_end_follow \in NotAnInteger
    /\ calls = <<Call("delete", current.oid, TRUE, NoMatch)>>
    /\ StoredWithOid(current.oid) = {}
    /\ \E i \in 1..Len(store) :
          /\ store[i].oid < current.oid
          /\ store[i].time_end_follow \notin NotAnInteger \cup {NeverReached}
          /\ ExpectedEnd(store[i].time_end_follow) = now

\* The source answered the latest-id query for the visited record with an
\* empty list of ids.
EmptyHistoryAnswered ==
    Visited /\ calls = <<Call("ids", current.oid, TRUE, NoMatch)>>

\* C24: when the source answers the latest-id query with an empty list, the
\* query counts as failed and no more: the pass returns Err to the driver,
\* the record is stored as it was, nothing was sent, and the driver task
\* lives on.
EmptyHistoryIsError ==
    EmptyHistoryAnswered =>
      /\ driver # "panicked"
      /\ result = "err"
      /\ sent = EmptyBag
      /\ \A d \in StoredWithOid(current.oid) :
            d.last_match_id = current.last_match_id

\* The step is one of /followgames that writes to the store.
FollowWrites == store' # store /\ ~LoopStep

\* C25: a follow request for a (puuid, guild_id) pair that has a record
\* changes the time_end_follow of that record and nothing else in the
\* store: the request adds a document only for a pair that has none, and
\* otherwise every document keeps its place and all fields but
\* time_end_follow.
RefollowChangesOnlyExpiry ==
    [][FollowWrites =>
         \/ /\ Len(store') = Len(store) + 1
            /\ SubSeq(store', 1, Len(store)) = store
            /\ ByPuuidAndGuild(store, store'[Len(store')].puuid,
                               store'[Len(store')].guild_id) = {}
         \/ /\ Len(store') = Len(store)
            /\ \E i \in 1..Len(store) :
                  store' = [store EXCEPT ![i].time_end_follow =
                                             store'[i].time_end_follow]]_vars

\* The game modes of QUEUE_ID_MAP.
GameModes == {QUEUE_ID_MAP[i][2] : i \in 1..Len(QUEUE_ID_MAP)}

\* C26: get_match_details gives a summary only for a match whose queueId is
\* in QUEUE_ID_MAP and that has the followed summoner among its
\* participants, and None for every other match; so every message built
\* from its summary comes from such a match and names a game mode of the
\* map.
GameModeValidated ==
    \A n \in BagToSet(sent) :
       /\ n.gameMode \in GameModes
       /\ \E info \in MatchInfos :
             /\ is_valid_game_mode(info.queueId)
             /\ info.isArray
             /\ \E k \in 1..Len(info.participants) :
                   info.participants[k].summonerId = current.summoner_id
             /\ get_match_details(info, current.summoner_id).some
             /\ n = Notification(current, n.match,
                                 get_match_details(info, current.summoner_id).val)

\* C27: while the source keeps reporting the same latest id B, at most one
\* notification of B is delivered for a (puuid, guild_id) pair to the
\* channel of its guild: no step of the loop delivers one when one was
\* delivered for the pair since the source last changed its answer.
SingleNotificationAcrossTicks ==
    [][LoopStep =>
         \A n \in BagToSet(sent') :
            ~\E s \in sends : /\ s.puuid = Head(enumerated).puuid
                              /\ s.guild_id = Head(enumerated).guild_id
                              /\ s.channel_id = n.channel_id
                              /\ s.match = n.match]_vars

\* The record is the only one of its (puuid, guild_id) pair.
OnlyOfPair(coll, d) ==
    Cardinality(ByPuuidAndGuild(coll, d.puuid, d.guild_id)) = 1

\* C28: a record whose stored time_end_follow is not past, a record that a
\* follow request has just refreshed during the pass among them, goes
\* through every step of the loop: it is in the store afterwards, with that
\* time_end_follow.  (Stated for the records that are the only one of their
\* pair.)
RefollowNotLost ==
    [][LoopStep =>
         \A i \in 1..Len(store) :
            (OnlyOfPair(store, store[i]) /\ ~is_follow_time_expired(store[i], now))
               => \E j \in 1..Len(store') :
                     /\ store'[j].oid = store[i].oid
                     /\ store'[j].time_end_follow = store[i].time_end_follow]_vars

\* The collection without the documents of the pair of record d: what the
\* store holds once the records of the pair have been deleted.
WithoutPair(coll, d) ==
    SelectSeq(coll, LAMBDA e : ~(e.puuid = d.puuid /\ e.guild_id = d.guild_id))

\* The step is one of the background task.
DriverStep ==
    \/ driver' # driver
    \/ calls' # calls
    \/ pc' # pc
    \/ cursor' # cursor
    \/ enumerated' # enumerated

\* C29: a step of the loop adds no document to the store, leaves every
\* document it keeps as it was but for last_match_id, and the task changes
\* nothing in the store when a pass starts, enumerates or ends; had the
\* documents of the enumerated record been deleted from the store by then,
\* the update issued for it would match nothing and leave the store as it
\* is.
LoopNeverCreatesRecords ==
    [][/\ LoopStep =>
            /\ Len(store') <= Len(store)
            /\ \A j \in 1..Len(store') :
                  \E i \in 1..Len(store) :
                     store'[j] = [store[i] EXCEPT !.last_match_id =
                                                     store'[j].last_match_id]
       /\ (DriverStep /\ ~LoopStep) => store' = store
       /\ (LoopStep /\ pc.at = "update") =>
            LET gone == WithoutPair(store, Head(enumerated))
            IN  update_last_match_id(gone, calls, Head(enumerated), TRUE).store
                   = gone]_vars

\* C29 witness: the loop has written a new last_match_id to the visited
\* record, the one change it makes to a record it keeps.
LastMatchIdWritten ==
    /\ Visited
    /\ Len(calls) >= 2
    /\ calls[2] = Call("update", current.oid, TRUE, calls[1].match)
    /\ \E d \in StoredWithOid(current.oid) :
          /\ d.last_match_id # current.last_match_id
          /\ d = [current EXCEPT !.last_match_id = calls[2].match]

\* A notification delivered is for the record the loop visited last, after
\* a latest-id query that returned an id other than the enumerated
\* last_match_id of the record; it goes to the channel_id of the record, is
\* about the returned id and is the only one of the visit; the record is not
\* visited again in the pass.
NotificationJustified ==
    /\ BagCardinality(sent) <= 1
    /\ \A n \in BagToSet(sent) :
          /\ Processed
          /\ driver \in {"loop", "returned"}
          /\ calls[1] = Call("ids", current.oid, TRUE, n.match)
          /\ calls[Len(calls)] = Call("send", current.oid, TRUE, n.match)
          /\ n.match \in MatchIds
          /\ n.match # current.last_match_id
          /\ n.channel_id = current.channel_id
          /\ \A d \in StoredWithOid(current.oid) : d.channel_id = n.channel_id
          /\ \A k \in 1..Len(enumerated) : enumerated[k].oid # current.oid

\* C30: a notification is delivered only for the record the loop has just
\* taken from the enumeration of the running pass, which the expiry test
\* found not expired when its processing began (the latest-id query is
\* issued for no other) and whose enumerated last_match_id is not the id
\* the source returned for it; the message goes to the channel_id of that
\* record, is about the returned id, and is the only one for that record in
\* the pass: one message at most per visit, and the record is not visited
\* again.
EveryNotificationJustified ==
    [][/\ NotificationJustified'
       /\ (EntryStep /\ pc'.at = "ids") =>
            ~is_follow_time_expired(Head(enumerated'), now)
       /\ (FirstCallStep /\ calls'[1].op = "ids") => pc.at = "ids"]_vars

\* C30 witness: a notification was delivered for a record of a pass that
\* has more records to process.
NotificationDeliveredMidPass ==
    /\ driver = "loop"
    /\ enumerated # <<>>
    /\ BagCardinality(sent) = 1
    /\ \E n \in BagToSet(sent) :
          /\ n.channel_id = current.channel_id
          /\ n.match = calls[1].match
          /\ n.match # current.last_match_id

====
